---- MODULE Spec2Model ----
(***************************************************************************)
(* Model of package term (andreas19/go-term): the raw-mode line editor     *)
(* GetBytes of src/term/get.go, in its two build variants (the linux-only  *)
(* file, lines 1-156, and the unix file, lines 158-316).                   *)
(*                                                                         *)
(* Bytes are the integers 0..255, byte slices are sequences of bytes, a    *)
(* flag word of a termios is the set of the positions of its set bits, so  *)
(* that  x |= m  is union and  x &^= m  is set difference.                 *)
(***************************************************************************)
EXTENDS Integers, Sequences, FiniteSets, TLC

(***************************************************************************)
(* Bounds of the model.                                                    *)
(***************************************************************************)
\* device reads served to one invocation of GetBytes under Spec
MaxReads == 3
\* device reads served to one invocation under SpecWords
MaxWordReads == 4
\* largest character limit passed to GetBytes
MaxLimit == 2

(***************************************************************************)
(* Constants of the program.                                               *)
(***************************************************************************)
maskChar == 42
linefeed == 10
space == 32
EchoNormal == 0
EchoNone == 1
EchoMask == 2
\* utf8.RuneError, utf8.UTFMax, utf8.RuneSelf
RuneError == 65533
UTFMax == 4
RuneSelf == 128
\* the escape character written by erase
ESC == 27

EchoModes == {EchoNormal, EchoNone, EchoMask}

(***************************************************************************)
(* unicode/utf8, as GetBytes uses it.                                      *)
(***************************************************************************)
\* the first[] table of utf8: the length a leading byte announces
\* (1 for ASCII, 0 for a byte that cannot start a character)
SeqLen(b) ==
    IF b < RuneSelf THEN 1
    ELSE IF b < 194 THEN 0
    ELSE IF b < 224 THEN 2
    ELSE IF b < 240 THEN 3
    ELSE IF b < 245 THEN 4
    ELSE 0

\* the acceptRanges[] table of utf8: the bounds of the second byte
AcceptLo(b) == IF b = 224 THEN 160 ELSE IF b = 240 THEN 144 ELSE 128
AcceptHi(b) == IF b = 237 THEN 159 ELSE IF b = 244 THEN 143 ELSE 191

IsCont(b) == b >= 128 /\ b <= 191

\* utf8.DecodeRune(p): the first character of p and its width in bytes
DecodeRune(p) ==
    IF Len(p) < 1 THEN [r |-> RuneError, size |-> 0]
    ELSE LET p0 == p[1]
             sz == SeqLen(p0)
         IN IF sz = 1 THEN [r |-> p0, size |-> 1]
            ELSE IF sz = 0 \/ Len(p) < sz THEN [r |-> RuneError, size |-> 1]
            ELSE IF p[2] < AcceptLo(p0) \/ AcceptHi(p0) < p[2]
                 THEN [r |-> RuneError, size |-> 1]
            ELSE IF sz = 2
                 THEN [r |-> (p0 % 32) * 64 + (p[2] % 64), size |-> 2]
            ELSE IF ~IsCont(p[3]) THEN [r |-> RuneError, size |-> 1]
            ELSE IF sz = 3
                 THEN [r |-> (p0 % 16) * 4096 + (p[2] % 64) * 64 + (p[3] % 64),
                       size |-> 3]
            ELSE IF ~IsCont(p[4]) THEN [r |-> RuneError, size |-> 1]
            ELSE [r |-> (p0 % 8) * 262144 + (p[2] % 64) * 4096
                        + (p[3] % 64) * 64 + (p[4] % 64),
                  size |-> 4]

Drop(p, n) == SubSeq(p, n + 1, Len(p))

\* utf8.RuneCount(p): every invalid byte counts as one character of width 1
RECURSIVE RuneCount(_)
RuneCount(p) ==
    IF Len(p) = 0 THEN 0 ELSE 1 + RuneCount(Drop(p, DecodeRune(p).size))

\* utf8.RuneStart(b)
RuneStart(b) == ~IsCont(b)

\* the backward scan of utf8.DecodeLastRune: the 0-based index it stops at
RECURSIVE LastStart(_, _, _)
LastStart(p, start, lim) ==
    IF start < lim THEN lim
    ELSE IF RuneStart(p[start + 1]) THEN start
    ELSE LastStart(p, start - 1, lim)

\* utf8.DecodeLastRune(p): the last character of p and its width in bytes
DecodeLastRune(p) ==
    LET end == Len(p) IN
    IF end = 0 THEN [r |-> RuneError, size |-> 0]
    ELSE IF p[end] < RuneSelf THEN [r |-> p[end], size |-> 1]
    ELSE LET lim == IF end - UTFMax < 0 THEN 0 ELSE end - UTFMax
             start == LastStart(p, end - 2, lim)
             d == DecodeRune(SubSeq(p, start + 1, end))
         IN IF start + d.size # end THEN [r |-> RuneError, size |-> 1] ELSE d

\* utf8.Valid(p)
RECURSIVE Valid(_)
Valid(p) ==
    IF Len(p) = 0 THEN TRUE
    ELSE LET d == DecodeRune(p)
         IN IF d.r = RuneError /\ d.size = 1 THEN FALSE ELSE Valid(Drop(p, d.size))

\* the characters above Latin-1 the modelled inputs can decode to, all graphic:
\* U+20AC (Sc), U+1F600 (So), U+FFFD (So, the replacement character)
GraphicAboveLatin1 == {8364, 128512, RuneError}

\* unicode.IsGraphic(r): categories L, M, N, P, S, Zs
IsGraphic(r) ==
    IF r <= 255
    THEN (r >= 32 /\ r <= 126) \/ (r >= 160 /\ r # 173)
    ELSE r \in GraphicAboveLatin1

\* strconv.Itoa(x) for x >= 0, as ASCII digits
RECURSIVE Itoa(_)
Itoa(x) == IF x < 10 THEN <<48 + x>> ELSE Itoa(x \div 10) \o <<48 + (x % 10)>>

(***************************************************************************)
(* The terminal device and its termios (golang.org/x/sys/unix).            *)
(***************************************************************************)
\* the build variant of get.go and the platform's table of Cc slots
Variants == {"linux", "unix"}
Platforms == {"linux", "sunos"}

\* unix.ECHO, unix.ICANON (bits of Lflag) and unix.ICRNL (bit of Iflag)
ECHO == {3}
ICANON == {1}
ICRNL == {8}

\* the slots of Termios.Cc
Slots == 0 .. 18
VERASE == 2
VKILL == 3
VEOF == 4
VTIME == 5
VWERASE == 14
\* VMIN has a slot of its own on linux and shares the slot of VEOF on sunos
VMIN(pl) == IF pl = "linux" THEN 6 ELSE 4

\* the control characters of a terminal as stty sets them up
DefaultCc ==
    [s \in Slots |->
        CASE s = 0 -> 3
          [] s = 1 -> 28
          [] s = VERASE -> 127
          [] s = VKILL -> 21
          [] s = VEOF -> 4
          [] s = 6 -> 1
          [] s = 8 -> 17
          [] s = 9 -> 19
          [] s = 10 -> 26
          [] s = VWERASE -> 23
          [] OTHER -> 0]

\* a cooked terminal, and one whose user turned echo off and bound kill to 'a'
CookedTermios ==
    [Iflag |-> {8, 10}, Oflag |-> {0, 2}, Lflag |-> {0, 1, 3, 4, 5, 15},
     Cflag |-> {4, 5, 7}, Cc |-> DefaultCc]
CustomTermios ==
    [Iflag |-> {10}, Oflag |-> {0}, Lflag |-> {0, 1, 15},
     Cflag |-> {4, 5, 7}, Cc |-> [DefaultCc EXCEPT ![VKILL] = 97]]
DevConfigs == {CookedTermios, CustomTermios}

(***************************************************************************)
(* What one read of the device can deliver: 1 to 4 bytes.                  *)
(***************************************************************************)
\* one key each: ^D, enter, DEL, ^U, ^W, BEL
ControlUnits == {<<4>>, <<10>>, <<127>>, <<21>>, <<23>>, <<7>>}
\* one character each, of 1, 1, 2, 3 and 4 bytes: a, space, U+E9, U+20AC, U+1F600
CharUnits ==
    {<<97>>, <<32>>, <<195, 169>>, <<226, 130, 172>>, <<240, 159, 152, 128>>}
\* typeahead and split reads: "ab", "a\n", the first byte of U+E9 alone
BurstUnits == {<<97, 98>>, <<97, 10>>, <<195>>}
Units == ControlUnits \cup CharUnits \cup BurstUnits
\* "foo ", "bar ", ^W, and single characters
WordUnits ==
    {<<102, 111, 111, 32>>, <<98, 97, 114, 32>>, <<23>>, <<32>>, <<195, 169>>}

\* the errors os.Stdin.Read can return
ReadErrors == {"EIO", "EOF"}

VARIABLES
    variant,    \* which GetBytes of get.go is built
    platform,   \* which Cc slot table the build has
    echo,       \* argument echo
    limit,      \* argument limit
    dev,        \* the termios the device holds
    pre,        \* the termios the device held when GetBytes was called
    termios,    \* local *termios
    old,        \* local old
    ctl,        \* locals vEof, vErase, vKill, vWerase
    result,     \* local result
    err,        \* local err
    pc,         \* "call", "reading", "deferred", "returned"
    out,        \* the writes to os.Stdout, in order
    reads,      \* device reads made
    restores,   \* runs of the deferred IoctlSetTermios(&old)
    entered,    \* IoctlGetTermios succeeded
    applied,    \* which of the two IoctlSetTermios calls took effect
    fed,        \* the byte slices the successful reads delivered, in order
    prev,       \* result as it was before the latest read
    wrote,      \* the writes to os.Stdout of the latest read
    accepted,   \* characters the default branch has appended to result so far
    mk,         \* a caller of MakeRaw: its position, the closure's old, results
    inp,        \* a caller of Input: its position, opt, *in and the result
    menu        \* a caller of Menu: its arguments, the layout, what it printed

vars ==
    <<variant, platform, echo, limit, dev, pre, termios, old, ctl, result, err,
      pc, out, reads, restores, entered, applied, fed, prev, wrote, accepted,
      mk, inp, menu>>

\* the state of the callers of MakeRaw, of Input and of Menu
callers == <<mk, inp, menu>>

\* no call of MakeRaw, no call of Input, no call of Menu
NoMakeRaw == [pc |-> "none"]
NoInput == [pc |-> "none"]
NoMenu == [pc |-> "none"]

NoCtl == [vEof |-> 0, vErase |-> 0, vKill |-> 0, vWerase |-> 0]

Init ==
    /\ variant \in Variants
    /\ platform \in Platforms
    /\ variant = "linux" => platform = "linux"
    /\ echo \in EchoModes
    /\ limit \in 0 .. MaxLimit
    /\ dev \in DevConfigs
    /\ pre = dev
    /\ termios = dev
    /\ old = dev
    /\ ctl = NoCtl
    /\ result = <<>>
    /\ err = "nil"
    /\ pc = "call"
    /\ out = <<>>
    /\ reads = 0
    /\ restores = 0
    /\ entered = FALSE
    /\ applied = [raw |-> FALSE, restore |-> FALSE]
    /\ fed = <<>>
    /\ prev = <<>>
    /\ wrote = <<>>
    /\ accepted = 0
    /\ mk = NoMakeRaw
    /\ inp = NoInput
    /\ menu = NoMenu

(***************************************************************************)
(* GetBytes: get.go lines 30-106 (linux) and 192-268 (unix).               *)
(***************************************************************************)
\* a derived configuration that turns canonical input off and leaves echo on
RawTermiosKeepEcho(t) ==
    LET cc1 == [t.Cc EXCEPT ![VMIN(platform)] = 1]
        cc2 == [cc1 EXCEPT ![VTIME] = 0]
        t1 == [t EXCEPT !.Cc = cc2, !.Lflag = @ \ ICANON]
    IN IF variant = "linux"
       THEN [t1 EXCEPT !.Oflag = @ \cup ICRNL]
       ELSE [t1 EXCEPT !.Iflag = @ \cup ICRNL]

\* the configuration GetBytes derives from the one it read
\* (the linux file sets the ICRNL bit in Oflag, the unix file in Iflag)
RawTermios(t) ==
    LET cc1 == [t.Cc EXCEPT ![VMIN(platform)] = 1]
        cc2 == [cc1 EXCEPT ![VTIME] = 0]
        t1 == [t EXCEPT !.Cc = cc2, !.Lflag = @ \ (ECHO \cup ICANON)]
    IN IF variant = "linux"
       THEN [t1 EXCEPT !.Oflag = @ \cup ICRNL]
       ELSE [t1 EXCEPT !.Iflag = @ \cup ICRNL]

\* vEof, vErase, vKill, vWerase as GetBytes reads them from termios
ControlBytes(t) ==
    [vEof |-> t.Cc[VEOF], vErase |-> t.Cc[VERASE],
     vKill |-> t.Cc[VKILL], vWerase |-> t.Cc[VWERASE]]

\* IoctlGetTermios, old := *termios, defer, the changes to termios,
\* IoctlSetTermios (its error is dropped), the control bytes
EnterRaw ==
    /\ pc = "call"
    /\ \E getOk \in BOOLEAN, setOk \in BOOLEAN :
         IF ~getOk
         THEN /\ err' = "EIO"
              /\ pc' = "returned"
              /\ UNCHANGED <<dev, termios, old, ctl, entered, applied>>
         ELSE /\ old' = dev
              /\ termios' = RawTermios(dev)
              /\ dev' = IF setOk THEN RawTermios(dev) ELSE dev
              /\ applied' = [applied EXCEPT !.raw = setOk]
              /\ ctl' = ControlBytes(RawTermios(dev))
              /\ entered' = TRUE
              /\ pc' = "reading"
              /\ UNCHANGED err
    /\ UNCHANGED <<variant, platform, echo, limit, pre, result, out, reads,
                   restores, fed, prev, wrote, accepted>>
    /\ UNCHANGED callers

\* an erase that moves the cursor back by the bytes cut, not the characters
eraseByteWidth(n, res, echoOn) ==
    LET seq == << <<ESC, 91>>, Itoa(n), <<68, ESC, 91, 75>> >>
    IN [result |-> SubSeq(res, 1, Len(res) - n),
        writes |-> IF echoOn /\ (variant = "linux" \/ n > 0) THEN seq ELSE <<>>]

\* erase: the cursor-back and clear-to-end-of-line writes, and the cut
\* (the unix file writes nothing for a width of 0, the linux file always writes)
erase(n, res, echoOn) ==
    LET x == RuneCount(SubSeq(res, Len(res) - n + 1, Len(res)))
        seq == << <<ESC, 91>>, Itoa(x), <<68, ESC, 91, 75>> >>
    IN [result |-> SubSeq(res, 1, Len(res) - n),
        writes |-> IF echoOn /\ (variant = "linux" \/ x > 0) THEN seq ELSE <<>>]

\* a scan without the flag: it stops at the first space, a trailing one too
RECURSIVE WeraseScanNoSkip(_, _, _)
WeraseScanNoSkip(res, pos, flag) ==
    IF pos < 0 THEN pos
    ELSE IF res[pos + 1] = space THEN pos
    ELSE WeraseScanNoSkip(res, pos - 1, flag)

\* a scan that stops at the first non-space: only trailing spaces are cut
RECURSIVE WeraseScanSpacesOnly(_, _, _)
WeraseScanSpacesOnly(res, pos, flag) ==
    IF pos < 0 THEN pos
    ELSE IF res[pos + 1] # space THEN pos
    ELSE WeraseScanSpacesOnly(res, pos - 1, flag)

\* the scan of the vWerase case: the 0-based pos the for loop ends with
RECURSIVE WeraseScan(_, _, _)
WeraseScan(res, pos, flag) ==
    IF pos < 0 THEN pos
    ELSE IF ~flag /\ res[pos + 1] # space THEN WeraseScan(res, pos - 1, TRUE)
    ELSE IF flag /\ res[pos + 1] = space THEN pos
    ELSE WeraseScan(res, pos - 1, flag)

\* what one iteration leaves: the buffer, the writes, err, and break loop or not
Iter(res, w, e, done) == [result |-> res, writes |-> w, err |-> e, done |-> done]

\* a vEof case that sets io.EOF whatever the buffer holds
OnEofAlways(res) == Iter(res, <<>>, "EOF", TRUE)

\* case vEof
OnEof(res) == Iter(res, <<>>, IF Len(res) = 0 THEN "EOF" ELSE "nil", TRUE)

\* case linefeed
OnLinefeed(res) == Iter(res, <<>>, "nil", TRUE)

\* a vErase case that cuts one byte instead of one character
OnEraseByte(res) ==
    IF Len(res) > 0
    THEN LET e == erase(1, res, echo # EchoNone)
         IN Iter(e.result, e.writes, "nil", FALSE)
    ELSE Iter(res, <<>>, "nil", FALSE)

\* case vErase
OnErase(res) ==
    IF Len(res) > 0
    THEN LET e == erase(DecodeLastRune(res).size, res, echo # EchoNone)
         IN Iter(e.result, e.writes, "nil", FALSE)
    ELSE Iter(res, <<>>, "nil", FALSE)

\* a vKill case that echoes the erase sequence under every echo mode
OnKillEchoAlways(res) ==
    LET e == erase(Len(res), res, TRUE)
    IN Iter(e.result, e.writes, "nil", FALSE)

\* case vKill
OnKill(res) ==
    LET e == erase(Len(res), res, echo # EchoNone)
    IN Iter(e.result, e.writes, "nil", FALSE)

\* case vWerase
OnWerase(res) ==
    IF Len(res) = 0 THEN Iter(res, <<>>, "nil", FALSE)
    ELSE LET pos == WeraseScan(res, Len(res) - 1, FALSE)
             e == erase(Len(res) - (pos + 1), res, echo # EchoNone)
         IN Iter(e.result, e.writes, "nil", FALSE)

\* a default branch that appends only the first of the bytes read
AcceptFirstByte(res, u) ==
    LET buf == u \o [i \in 1 .. (4 - Len(u)) |-> 0]
        res2 == res \o <<u[1]>>
    IN IF IsGraphic(DecodeRune(buf).r)
       THEN Iter(res2,
                 IF echo = EchoNormal THEN << u >>
                 ELSE IF echo = EchoMask THEN << <<maskChar>> >>
                 ELSE <<>>,
                 "nil",
                 limit > 0 /\ RuneCount(res2) = limit)
       ELSE Iter(res, <<>>, "nil", FALSE)

\* the default branch: echo, append buf[:cnt], the limit test
Accept(res, u) ==
    LET buf == u \o [i \in 1 .. (4 - Len(u)) |-> 0]
        res2 == res \o u
    IN IF IsGraphic(DecodeRune(buf).r)
       THEN Iter(res2,
                 IF echo = EchoNormal THEN << u >>
                 ELSE IF echo = EchoMask THEN << <<maskChar>> >>
                 ELSE <<>>,
                 "nil",
                 limit > 0 /\ RuneCount(res2) = limit)
       ELSE Iter(res, <<>>, "nil", FALSE)

\* switch buf[0]: the first case that matches decides
Dispatch(res, u) ==
    IF u[1] = ctl.vEof THEN OnEof(res)
    ELSE IF u[1] = linefeed THEN OnLinefeed(res)
    ELSE IF u[1] = ctl.vErase THEN OnErase(res)
    ELSE IF u[1] = ctl.vKill THEN OnKill(res)
    ELSE IF u[1] = ctl.vWerase THEN OnWerase(res)
    ELSE Accept(res, u)

\* os.Stdin.Read delivers the bytes u and the loop body runs on them
ReadUnit(U, max) ==
    /\ pc = "reading"
    /\ reads < max
    /\ \E u \in U :
         LET d == Dispatch(result, u) IN
         /\ result' = d.result
         /\ out' = out \o d.writes
         /\ err' = d.err
         /\ fed' = Append(fed, u)
         /\ prev' = result
         /\ wrote' = d.writes
         /\ accepted' = accepted + RuneCount(Drop(d.result, Len(result)))
         /\ pc' = IF d.done THEN "deferred" ELSE "reading"
    /\ reads' = reads + 1
    /\ UNCHANGED <<variant, platform, echo, limit, dev, pre, termios, old, ctl,
                   restores, entered, applied>>
    /\ UNCHANGED callers

Read == ReadUnit(Units, MaxReads)

ReadWords == ReadUnit(WordUnits, MaxWordReads)

\* a read failure that returns without the restore (no defer)
ReadFailNoRestore ==
    /\ pc = "reading"
    /\ reads < MaxReads
    /\ \E e \in ReadErrors : err' = e
    /\ reads' = reads + 1
    /\ pc' = "returned"
    /\ prev' = result
    /\ wrote' = <<>>
    /\ UNCHANGED <<variant, platform, echo, limit, dev, pre, termios, old, ctl,
                   result, out, restores, entered, applied, fed, accepted>>
    /\ UNCHANGED callers

\* a read failure that returns an empty slice with the error
ReadFailDiscard ==
    /\ pc = "reading"
    /\ reads < MaxReads
    /\ \E e \in ReadErrors : err' = e
    /\ reads' = reads + 1
    /\ pc' = "deferred"
    /\ prev' = result
    /\ wrote' = <<>>
    /\ result' = <<>>
    /\ UNCHANGED <<variant, platform, echo, limit, dev, pre, termios, old, ctl,
                   out, restores, entered, applied, fed, accepted>>
    /\ UNCHANGED callers

\* os.Stdin.Read fails: return result, err
ReadFail ==
    /\ pc = "reading"
    /\ reads < MaxReads
    /\ \E e \in ReadErrors : err' = e
    /\ reads' = reads + 1
    /\ pc' = "deferred"
    /\ prev' = result
    /\ wrote' = <<>>
    /\ UNCHANGED <<variant, platform, echo, limit, dev, pre, termios, old, ctl,
                   result, out, restores, entered, applied, fed, accepted>>
    /\ UNCHANGED callers

\* the deferred IoctlSetTermios(stdoutFd, termiosSet, &old); its error is dropped
Restore ==
    /\ pc = "deferred"
    /\ \E setOk \in BOOLEAN :
         /\ dev' = IF setOk THEN old ELSE dev
         /\ applied' = [applied EXCEPT !.restore = setOk]
    /\ restores' = restores + 1
    /\ pc' = "returned"
    /\ UNCHANGED <<variant, platform, echo, limit, pre, termios, old, ctl,
                   result, err, out, reads, entered, fed, prev, wrote, accepted>>
    /\ UNCHANGED callers

Next == EnterRaw \/ Read \/ ReadFail \/ Restore

Spec == Init /\ [][Next]_vars

NextWords == EnterRaw \/ ReadWords \/ Restore

SpecWords == Init /\ [][NextWords]_vars

(***************************************************************************)
(* MakeRaw: term.go lines 34-62 (linux) and the unix file of the same      *)
(* text. A caller takes the restore function, the device may be changed    *)
(* by others meanwhile, and the caller calls restore.                      *)
(***************************************************************************)
\* changes others make to the device between MakeRaw and restore
MaxMeddles == 2
\* calls of the restore function
MaxRestoreCalls == 2

\* the bits of Iflag, Oflag, Lflag and Cflag that MakeRaw names
IGNBRK == {0}
BRKINT == {1}
PARMRK == {3}
ISTRIP == {5}
INLCR == {6}
IGNCR == {7}
IXON == {10}
OPOST == {0}
ISIG == {0}
ECHONL == {6}
IEXTEN == {15}
CSIZE == {4, 5}
CS8 == {4, 5}
PARENB == {8}

\* a 7-bit line with parity, break ignored, and echo of newlines
SerialTermios ==
    [Iflag |-> {0, 2, 5, 8, 10, 11}, Oflag |-> {0, 2},
     Lflag |-> {0, 1, 3, 4, 6, 15}, Cflag |-> {5, 7, 8}, Cc |-> DefaultCc]
MakeRawConfigs == {CookedTermios, CustomTermios, SerialTermios}

\* a raw configuration that leaves signal generation on
MakeRawTermiosKeepISIG(t) ==
    [t EXCEPT
        !.Iflag = @ \ (IGNBRK \cup BRKINT \cup PARMRK \cup ISTRIP \cup INLCR
                       \cup IGNCR \cup ICRNL \cup IXON),
        !.Oflag = @ \ OPOST,
        !.Lflag = @ \ (ECHO \cup ECHONL \cup ICANON \cup IEXTEN),
        !.Cflag = (@ \ (CSIZE \cup PARENB)) \cup CS8]

\* the changes MakeRaw makes to *termios
MakeRawTermios(t) ==
    [t EXCEPT
        !.Iflag = @ \ (IGNBRK \cup BRKINT \cup PARMRK \cup ISTRIP \cup INLCR
                       \cup IGNCR \cup ICRNL \cup IXON),
        !.Oflag = @ \ OPOST,
        !.Lflag = @ \ (ECHO \cup ECHONL \cup ICANON \cup ISIG \cup IEXTEN),
        !.Cflag = (@ \ (CSIZE \cup PARENB)) \cup CS8]

\* an old that shares the struct being modified instead of copying it
CapturedAlias(t) == MakeRawTermios(t)

\* old := *termios, a copy taken before the changes
CapturedOld(t) == t

\* the GetBytes state other than the device
locals ==
    <<variant, platform, echo, limit, pre, termios, old, ctl, result, err, pc,
      out, reads, restores, entered, applied, fed, prev, wrote, accepted>>

InitRaw ==
    /\ variant \in Variants
    /\ platform = "linux"
    /\ echo = EchoNormal
    /\ limit = 0
    /\ dev \in MakeRawConfigs
    /\ pre = dev
    /\ termios = dev
    /\ old = dev
    /\ ctl = NoCtl
    /\ result = <<>>
    /\ err = "nil"
    /\ pc = "call"
    /\ out = <<>>
    /\ reads = 0
    /\ restores = 0
    /\ entered = FALSE
    /\ applied = [raw |-> FALSE, restore |-> FALSE]
    /\ fed = <<>>
    /\ prev = <<>>
    /\ wrote = <<>>
    /\ accepted = 0
    /\ mk = [pc |-> "idle", base |-> dev, old |-> dev, restore |-> FALSE,
             err |-> "nil", rerr |-> "nil", meddles |-> 0, calls |-> 0]
    /\ inp = NoInput
    /\ menu = NoMenu

\* MakeRaw(fd): IoctlGetTermios, old := *termios, the changes,
\* IoctlSetTermios, and the closure or the error
MakeRaw ==
    /\ mk.pc = "idle"
    /\ \E getOk \in BOOLEAN, setOk \in BOOLEAN :
         IF ~getOk
         THEN /\ mk' = [mk EXCEPT !.pc = "failed", !.err = "EIO"]
              /\ dev' = dev
         ELSE IF ~setOk
         THEN /\ mk' = [mk EXCEPT !.pc = "failed", !.err = "EIO",
                                  !.old = CapturedOld(dev)]
              /\ dev' = dev
         ELSE /\ mk' = [mk EXCEPT !.pc = "raw", !.old = CapturedOld(dev),
                                  !.restore = TRUE]
              /\ dev' = MakeRawTermios(dev)
    /\ UNCHANGED <<locals, inp, menu>>

\* while the caller holds the restore function something else sets one
\* flag bit of the device the other way
Meddle ==
    /\ mk.pc \in {"raw", "restored"}
    /\ mk.meddles < MaxMeddles
    /\ \E f \in {"Iflag", "Oflag", "Lflag", "Cflag"}, b \in {0, 1, 3, 8} :
         dev' = [dev EXCEPT ![f] = IF b \in @ THEN @ \ {b} ELSE @ \cup {b}]
    /\ mk' = [mk EXCEPT !.pc = "raw", !.meddles = @ + 1]
    /\ UNCHANGED <<locals, inp, menu>>

\* the returned function: IoctlSetTermios(fd, termiosSet, &old)
RestoreCall ==
    /\ mk.pc \in {"raw", "restored"}
    /\ mk.restore
    /\ mk.calls < MaxRestoreCalls
    /\ \E setOk \in BOOLEAN :
         /\ dev' = IF setOk THEN mk.old ELSE dev
         /\ mk' = [mk EXCEPT !.pc = "restored", !.calls = @ + 1,
                             !.rerr = IF setOk THEN "nil" ELSE "EIO"]
    /\ UNCHANGED <<locals, inp, menu>>

NextRaw == MakeRaw \/ Meddle \/ RestoreCall

SpecRaw == InitRaw /\ [][NextRaw]_vars

(***************************************************************************)
(* Input: the unix file (part_002 lines 33-79) and the linux file          *)
(* (input.go lines 26-70). Input prompts, calls GetBytes, and converts.    *)
(***************************************************************************)
\* prompts one call of Input shows
MaxPrompts == 2
\* device reads served to one GetBytes called by Input
MaxInputReads == 2

\* the keys 1, 2, a, enter and ^D
InputUnits == {<<49>>, <<50>>, <<97>>, <<10>>, <<4>>}

\* the writes of fmt.Print(prompt), fmt.Println() and resetPrompt()
PromptWrite == <<63, 32>>
NewlineWrite == <<10>>
ResetWrite == <<ESC, 91, 65, ESC, 91, 71, ESC, 91, 75>>

IsDigit(b) == b >= 48 /\ b <= 57

\* the number a sequence of ASCII digits denotes
RECURSIVE DigitsValue(_)
DigitsValue(ds) ==
    IF Len(ds) = 0 THEN 0
    ELSE DigitsValue(SubSeq(ds, 1, Len(ds) - 1)) * 10 + (ds[Len(ds)] - 48)

\* the longest prefix of digits of line
RECURSIVE DigitPrefix(_)
DigitPrefix(line) ==
    IF Len(line) = 0 \/ ~IsDigit(line[1]) THEN <<>>
    ELSE <<line[1]>> \o DigitPrefix(Tail(line))

\* fmt.Sscan(s, in) with in a *uint: the leading digits are scanned, what
\* follows is left unread; an error when there is no digit
Sscan(line) ==
    LET ds == DigitPrefix(line)
    IN IF Len(ds) = 0 THEN [ok |-> FALSE, v |-> 0]
       ELSE [ok |-> TRUE, v |-> DigitsValue(ds)]

\* the ConvFunc Menu passes to Input, for a menu of two options:
\* strconv.ParseUint of the whole line, then the range test, then i - 1
MenuConv(line) ==
    IF Len(line) = 0 \/ DigitPrefix(line) # line THEN [ok |-> FALSE, v |-> 0]
    ELSE IF DigitsValue(line) = 0 \/ DigitsValue(line) > 2
    THEN [ok |-> FALSE, v |-> 0]
    ELSE [ok |-> TRUE, v |-> DigitsValue(line) - 1]

\* the conversion Input applies to a non-empty line
Convert(line) == IF inp.useConv THEN MenuConv(line) ELSE Sscan(line)

\* *in: not assigned by Input, assigned opt.Default, or assigned a converted v
Unassigned == [from |-> "caller", v |-> 0]
DefaultValue == [from |-> "default", v |-> 0]
Converted(v) == [from |-> "conversion", v |-> v]

InitInput ==
    /\ variant \in Variants
    /\ platform = "linux"
    /\ echo = EchoNormal
    /\ limit \in {0, 1}
    /\ dev = CookedTermios
    /\ pre = dev
    /\ termios = dev
    /\ old = dev
    /\ ctl = NoCtl
    /\ result = <<>>
    /\ err = "nil"
    /\ pc = "idle"
    /\ out = <<>>
    /\ reads = 0
    /\ restores = 0
    /\ entered = FALSE
    /\ applied = [raw |-> FALSE, restore |-> FALSE]
    /\ fed = <<>>
    /\ prev = <<>>
    /\ wrote = <<>>
    /\ accepted = 0
    /\ mk = NoMakeRaw
    /\ menu = NoMenu
    /\ \E isPtr \in BOOLEAN, hasDefault \in BOOLEAN, useConv \in BOOLEAN :
         inp = [pc |-> "start", isPtr |-> isPtr, hasDefault |-> hasDefault,
                useConv |-> useConv, prompts |-> 0, resets |-> 0,
                val |-> Unassigned, ret |-> "nil"]

\* checkIsTerminal, and in the unix file the test that in is a pointer
InputStart ==
    /\ inp.pc = "start"
    /\ inp' = IF variant = "unix" /\ ~inp.isPtr
              THEN [inp EXCEPT !.pc = "returned", !.ret = "not a pointer"]
              ELSE [inp EXCEPT !.pc = "loop"]
    /\ UNCHANGED <<dev, locals, mk, menu>>

\* fmt.Print(prompt) and the call of GetBytes(opt.Echo, opt.Limit)
InputPrompt ==
    /\ inp.pc = "loop"
    /\ inp.prompts < MaxPrompts
    /\ inp' = [inp EXCEPT !.pc = "wait", !.prompts = @ + 1]
    /\ out' = Append(out, PromptWrite)
    /\ pc' = "call"
    /\ pre' = dev
    /\ result' = <<>>
    /\ err' = "nil"
    /\ reads' = 0
    /\ restores' = 0
    /\ entered' = FALSE
    /\ applied' = [raw |-> FALSE, restore |-> FALSE]
    /\ fed' = <<>>
    /\ prev' = <<>>
    /\ wrote' = <<>>
    /\ accepted' = 0
    /\ UNCHANGED <<variant, platform, echo, limit, dev, termios, old, ctl, mk,
                   menu>>

\* what Input does with the line s = string(b) when GetBytes gave no error
OnLine(line) ==
    IF Len(line) = 0
    THEN IF inp.hasDefault
         THEN [inp EXCEPT !.pc = "returned", !.val = DefaultValue, !.ret = "nil"]
         ELSE [inp EXCEPT !.pc = "loop", !.resets = @ + 1]
    ELSE IF Convert(line).ok
         THEN IF inp.isPtr
              THEN [inp EXCEPT !.pc = "returned", !.val = Converted(Convert(line).v),
                               !.ret = "nil"]
              ELSE IF inp.useConv
                   THEN [inp EXCEPT !.pc = "panicked"]
                   ELSE [inp EXCEPT !.pc = "loop", !.resets = @ + 1]
         ELSE [inp EXCEPT !.pc = "loop", !.resets = @ + 1]

\* what Input does when GetBytes gave the error e: the unix file returns
\* it, the linux file returns io.EOF and panics on any other error
OnError(e) ==
    IF variant = "unix" \/ e = "EOF"
    THEN [inp EXCEPT !.pc = "returned", !.ret = e]
    ELSE [inp EXCEPT !.pc = "panicked"]

\* GetBytes has returned: fmt.Println() and the rest of the loop body
InputHandle ==
    /\ inp.pc = "wait"
    /\ pc = "returned"
    /\ inp' = IF err # "nil" THEN OnError(err) ELSE OnLine(result)
    /\ out' = out \o <<NewlineWrite>>
                  \o (IF inp'.pc = "loop" THEN <<ResetWrite>> ELSE <<>>)
    /\ UNCHANGED <<variant, platform, echo, limit, dev, pre, termios, old, ctl,
                   result, err, pc, reads, restores, entered, applied, fed,
                   prev, wrote, accepted, mk, menu>>

ReadInput == ReadUnit(InputUnits, MaxInputReads)

NextInput ==
    InputStart \/ InputPrompt \/ EnterRaw \/ ReadInput \/ ReadFail \/ Restore
        \/ InputHandle

SpecInput == InitInput /\ [][NextInput]_vars

(***************************************************************************)
(* Menu: part_002 lines 157-202, getRowAndColCounts 204-228, getTermSize   *)
(* 230-237 (input.go has the same text).                                   *)
(***************************************************************************)
\* options of a menu, requested columns, rows GetSize reports
MaxOptions == 4
MaxColumns == 3
MaxHeight == 6

\* the height getTermSize assumes when GetSize fails
DefaultHeight == 24
\* the lines getRowAndColCounts keeps free, with and without a title
TitleLines == 4
PlainLines == 2

Abs(x) == IF x < 0 THEN 0 - x ELSE x

\* Go's / and % on int: the quotient is truncated toward zero (b # 0)
GoDiv(a, b) ==
    IF (a >= 0) = (b > 0) THEN Abs(a) \div Abs(b) ELSE 0 - (Abs(a) \div Abs(b))
GoMod(a, b) == a - b * GoDiv(a, b)

\* a / b rounded as getRowAndColCounts rounds: one more when a % b # 0
DivUp(a, b) == GoDiv(a, b) + (IF GoMod(a, b) # 0 THEN 1 ELSE 0)

\* getRowAndColCounts; panic is the integer division by zero
getRowAndColCounts(optCnt, columns, height, withTitle) ==
    IF columns = 0
    THEN LET h == IF withTitle THEN TitleLines ELSE PlainLines
             rowCnt == IF height - h > optCnt THEN optCnt ELSE height - h
         IN IF rowCnt = 0
            THEN [panic |-> TRUE, rowCnt |-> rowCnt, colCnt |-> 0]
            ELSE [panic |-> FALSE, rowCnt |-> rowCnt,
                  colCnt |-> DivUp(optCnt, rowCnt)]
    ELSE [panic |-> FALSE, rowCnt |-> DivUp(optCnt, columns),
          colCnt |-> columns]

\* the height of getTermSize: what GetSize reports, or the default on error
getTermSize(rows, sizeErr) == IF sizeErr THEN DefaultHeight ELSE rows

InitMenu ==
    /\ variant = "unix"
    /\ platform = "linux"
    /\ echo = EchoNormal
    /\ limit = 0
    /\ dev = CookedTermios
    /\ pre = dev
    /\ termios = dev
    /\ old = dev
    /\ ctl = NoCtl
    /\ result = <<>>
    /\ err = "nil"
    /\ pc = "idle"
    /\ out = <<>>
    /\ reads = 0
    /\ restores = 0
    /\ entered = FALSE
    /\ applied = [raw |-> FALSE, restore |-> FALSE]
    /\ fed = <<>>
    /\ prev = <<>>
    /\ wrote = <<>>
    /\ accepted = 0
    /\ mk = NoMakeRaw
    /\ inp = NoInput
    /\ \E optCnt \in 1 .. MaxOptions, columns \in 0 .. MaxColumns,
          rows \in 0 .. MaxHeight, sizeErr \in BOOLEAN, withTitle \in BOOLEAN :
         /\ sizeErr => rows = 0
         /\ menu = [pc |-> "start", optCnt |-> optCnt, columns |-> columns,
                    rows |-> rows, sizeErr |-> sizeErr, withTitle |-> withTitle,
                    height |-> 0, rowCnt |-> 0, colCnt |-> 0,
                    row |-> 0, col |-> 0, printed |-> <<>>]

\* getTermSize, getRowAndColCounts, and the division by colCnt of maxOptWidth
MenuLayout ==
    /\ menu.pc = "start"
    /\ LET height == getTermSize(menu.rows, menu.sizeErr)
           g == getRowAndColCounts(menu.optCnt, menu.columns, height,
                                   menu.withTitle)
       IN menu' = [menu EXCEPT !.height = height, !.rowCnt = g.rowCnt,
                               !.colCnt = g.colCnt,
                               !.pc = IF g.panic \/ g.colCnt = 0
                                      THEN "panicked" ELSE "print"]
    /\ UNCHANGED <<dev, locals, mk, inp>>

\* one step of the two print loops: the option i = col*rowCnt + row is printed,
\* or the row ends (col = colCnt, or the break on i >= optCnt)
MenuPrint ==
    /\ menu.pc = "print"
    /\ menu.row < menu.rowCnt
    /\ LET i == menu.col * menu.rowCnt + menu.row
       IN menu' = IF menu.col < menu.colCnt /\ i < menu.optCnt
                  THEN [menu EXCEPT !.printed = Append(@, i), !.col = @ + 1]
                  ELSE [menu EXCEPT !.row = @ + 1, !.col = 0]
    /\ UNCHANGED <<dev, locals, mk, inp>>

\* the loops are done: Menu goes on to call Input
MenuInput ==
    /\ menu.pc = "print"
    /\ menu.row >= menu.rowCnt
    /\ menu' = [menu EXCEPT !.pc = "input"]
    /\ UNCHANGED <<dev, locals, mk, inp>>

NextMenu == MenuLayout \/ MenuPrint \/ MenuInput

SpecMenu == InitMenu /\ [][NextMenu]_vars

(***************************************************************************)
(* Vocabulary of the properties.                                           *)
(***************************************************************************)
RECURSIVE Flatten(_)
Flatten(us) == IF Len(us) = 0 THEN <<>> ELSE Head(us) \o Flatten(Tail(us))

Last(q) == q[Len(q)]
Front(q) == SubSeq(q, 1, Len(q) - 1)

\* p is exactly one well-formed character
OneChar(p) ==
    /\ Len(p) >= 1
    /\ DecodeRune(p).size = Len(p)
    /\ ~(DecodeRune(p).r = RuneError /\ Len(p) = 1)

\* p is exactly one graphic character
OneGraphic(p) == OneChar(p) /\ IsGraphic(DecodeRune(p).r)

\* p is a sequence of well-formed graphic characters
RECURSIVE WholeGraphic(_)
WholeGraphic(p) ==
    IF Len(p) = 0 THEN TRUE
    ELSE LET d == DecodeRune(p)
         IN /\ ~(d.r = RuneError /\ d.size = 1)
            /\ IsGraphic(d.r)
            /\ WholeGraphic(Drop(p, d.size))

\* the bytes the loop treats as control bytes
ControlSet == {ctl.vEof, linefeed, ctl.vErase, ctl.vKill, ctl.vWerase}

\* the latest device read succeeded and delivered a unit
LatestDelivered == Len(fed) >= 1 /\ reads = Len(fed)

\* the latest device read failed
LatestFailed == reads > Len(fed)

\* the latest read delivered a unit the switch took as the control byte c,
\* no earlier case taking it first
TookAs(c, earlier) == LatestDelivered /\ Last(fed)[1] = c /\ c \notin earlier

\* the three writes of a cursor-back by x columns and clear-to-end-of-line
BackSeq(x) == << <<ESC, 91>>, Itoa(x), <<68, ESC, 91, 75>> >>

C2_GraphicLine ==
    (/\ pc \in {"deferred", "returned"}
     /\ limit = 0
     /\ LatestDelivered
     /\ Last(fed) = <<linefeed>>
     /\ ctl.vEof # linefeed
     /\ \A i \in 1 .. (Len(fed) - 1) :
            OneGraphic(fed[i]) /\ fed[i][1] \notin ControlSet)
    => result = Flatten(Front(fed)) /\ err = "nil"

\* two characters, one of them of several bytes, then enter, under masked echo
C2_Witness ==
    /\ pc = "returned" /\ limit = 0 /\ echo = EchoMask
    /\ Len(fed) = 3 /\ Last(fed) = <<linefeed>>
    /\ \A i \in 1 .. 2 : OneGraphic(fed[i]) /\ fed[i][1] \notin ControlSet
    /\ Len(fed[1]) > 1 /\ fed[2] # fed[1]
    /\ result = fed[1] \o fed[2] /\ err = "nil"

(***************************************************************************)
(* C3. The end-of-input byte read on an empty buffer returns io.EOF with   *)
(* an empty slice; read on a non-empty buffer it returns that buffer and a *)
(* nil error.                                                              *)
(***************************************************************************)
C3_EndOfInput ==
    TookAs(ctl.vEof, {}) =>
        /\ pc \in {"deferred", "returned"}
        /\ IF prev = <<>>
           THEN err = "EOF" /\ result = <<>>
           ELSE err = "nil" /\ result = prev

\* ^D after accepted input: the caller has the buffer and no error
C3_Witness ==
    /\ pc = "returned" /\ TookAs(ctl.vEof, {})
    /\ prev # <<>> /\ result = prev /\ err = "nil"

C5_CompletesAtLimit ==
    (limit > 0 /\ entered /\ RuneCount(result) >= limit) =>
        pc \in {"deferred", "returned"}

(***************************************************************************)
(* C6 as stated. With limit N > 0 the buffer never holds more than N       *)
(* characters, in the loop or in the slice returned.                       *)
(***************************************************************************)
C6_AtMostLimit == limit > 0 => RuneCount(result) <= limit

(***************************************************************************)
(* C7 as stated. At every iteration boundary the buffer is a sequence of   *)
(* complete, well-formed, graphic characters.                              *)
(***************************************************************************)
C7_WholeCharacters == WholeGraphic(result)

(***************************************************************************)
(* C8 as stated. The buffer, and so the slice returned, never holds the    *)
(* newline byte.                                                           *)
(***************************************************************************)
C8_NoNewline == \A i \in 1 .. Len(result) : result[i] # linefeed

(***************************************************************************)
(* C9. On a non-empty buffer of whole characters the erase byte removes    *)
(* exactly the bytes of the last character, 1 to 4 of them, and the width  *)
(* in the cursor-back sequence is 1.                                       *)
(***************************************************************************)
C9_EraseOneCharacter ==
    (/\ TookAs(ctl.vErase, {ctl.vEof, linefeed})
     /\ prev # <<>>
     /\ Valid(prev))
    => /\ \E k \in 1 .. UTFMax :
            /\ k <= Len(prev)
            /\ OneChar(SubSeq(prev, Len(prev) - k + 1, Len(prev)))
            /\ result = SubSeq(prev, 1, Len(prev) - k)
       /\ wrote = IF echo = EchoNone THEN <<>> ELSE BackSeq(1)

\* a 4-byte character erased after another character, with echo on
C9_Witness ==
    /\ TookAs(ctl.vErase, {ctl.vEof, linefeed})
    /\ Valid(prev) /\ Len(prev) - Len(result) = 4 /\ Len(result) > 0
    /\ echo = EchoNormal /\ wrote = BackSeq(1)

(***************************************************************************)
(* C10 as stated. Word-erase on "foo bar " removes only the trailing       *)
(* space and leaves "foo bar".                                             *)
(***************************************************************************)
FooSp == <<102, 111, 111, 32>>
BarSp == <<98, 97, 114, 32>>

C10_TrailingSpacesOnly ==
    (TookAs(ctl.vWerase, {ctl.vEof, linefeed, ctl.vErase, ctl.vKill})
     /\ prev = FooSp \o BarSp)
    => result = FooSp \o <<98, 97, 114>>

(***************************************************************************)
(* C10 as amended. Word-erase on "foo bar " removes the trailing space     *)
(* together with the word before it and leaves "foo "; a second word-erase *)
(* then removes "foo " and leaves the buffer empty.                        *)
(***************************************************************************)
C10_WordAndSpaces ==
    TookAs(ctl.vWerase, {ctl.vEof, linefeed, ctl.vErase, ctl.vKill}) =>
        /\ prev = FooSp \o BarSp => result = FooSp
        /\ prev = FooSp => result = <<>>

\* "foo ", "bar ", word-erase, word-erase
C10_Witness ==
    /\ fed = <<FooSp, BarSp, <<ctl.vWerase>>, <<ctl.vWerase>> >>
    /\ prev = FooSp /\ result = <<>>

(***************************************************************************)
(* C11. The kill byte on a non-empty buffer empties it, and the width in   *)
(* the cursor-back sequence is the number of characters the buffer held,   *)
(* not the number of bytes.                                                *)
(***************************************************************************)
C11_KillEmpties ==
    (TookAs(ctl.vKill, {ctl.vEof, linefeed, ctl.vErase}) /\ prev # <<>>)
    => /\ result = <<>>
       /\ pc = "reading"
       /\ wrote = IF echo = EchoNone THEN <<>> ELSE BackSeq(RuneCount(prev))

\* two characters of more than two bytes killed under masked echo
C11_Witness ==
    /\ TookAs(ctl.vKill, {ctl.vEof, linefeed, ctl.vErase})
    /\ Valid(prev) /\ RuneCount(prev) = 2 /\ Len(prev) > 2
    /\ echo = EchoMask /\ result = <<>> /\ wrote = BackSeq(2)

(***************************************************************************)
(* C12 as stated. Under masked echo the number of '*' written equals the   *)
(* number of characters accepted into the buffer.                          *)
(***************************************************************************)
Stars(w) == Cardinality({i \in 1 .. Len(w) : w[i] = <<maskChar>>})

C12_GlyphPerCharacter == echo = EchoMask => Stars(out) = accepted

(***************************************************************************)
(* C13 as stated. An erase, kill or word-erase byte on an empty buffer     *)
(* changes nothing and writes nothing, in both files.                      *)
(***************************************************************************)
C13_EmptyIsNoOp ==
    (/\ LatestDelivered
     /\ prev = <<>>
     /\ Last(fed)[1] \in {ctl.vErase, ctl.vKill, ctl.vWerase}
     /\ Last(fed)[1] \notin {ctl.vEof, linefeed})
    => result = <<>> /\ wrote = <<>> /\ pc = "reading"

(***************************************************************************)
(* C14 as stated. When applying the raw configuration fails, no device     *)
(* read is made and the caller gets an error and no input.                 *)
(***************************************************************************)
C14_ApplyFailureAborts ==
    (entered /\ ~applied.raw) =>
        /\ reads = 0
        /\ pc = "returned" => err # "nil" /\ result = <<>>

(***************************************************************************)
(* C20. Under EchoNone GetBytes writes nothing to the display, whatever it *)
(* reads: no character, no '*', no cursor-back sequence.                   *)
(***************************************************************************)
C20_SilentWritesNothing == echo = EchoNone => out = <<>>

\* a character accepted and then killed without a single write
C20_Witness ==
    /\ echo = EchoNone /\ out = <<>> /\ accepted >= 1
    /\ TookAs(ctl.vKill, {ctl.vEof, linefeed, ctl.vErase})
    /\ prev # <<>> /\ result = <<>>

(***************************************************************************)
(* C18. The word-erase byte on a non-empty buffer cuts the trailing run of *)
(* non-space bytes followed by spaces: what is left is empty or ends in a  *)
(* space, the cut is on a character boundary, and the width in the         *)
(* cursor-back sequence is the number of characters cut.                   *)
(***************************************************************************)
\* q is a run of non-space bytes followed by a run of spaces
WordThenSpaces(q) ==
    \E k \in 0 .. Len(q) :
        /\ \A i \in 1 .. k : q[i] # space
        /\ \A i \in (k + 1) .. Len(q) : q[i] = space

AllSpaces(q) == \A i \in 1 .. Len(q) : q[i] = space

C18_WordErase ==
    (TookAs(ctl.vWerase, {ctl.vEof, linefeed, ctl.vErase, ctl.vKill})
     /\ prev # <<>>)
    => LET cut == Drop(prev, Len(result)) IN
       /\ Len(result) < Len(prev)
       /\ result = SubSeq(prev, 1, Len(result))
       /\ WordThenSpaces(cut)
       /\ result = <<>> \/ Last(result) = space
       /\ AllSpaces(cut) => result = <<>>
       /\ RuneCount(result) + RuneCount(cut) = RuneCount(prev)
       /\ Valid(prev) => Valid(result) /\ Valid(cut)
       /\ wrote = IF echo = EchoNone THEN <<>> ELSE BackSeq(RuneCount(cut))
       /\ pc = "reading"

\* "foo ", a 2-byte character and a space: word-erase cuts the last two
\* characters (3 bytes) and leaves "foo "
C18_Witness ==
    /\ TookAs(ctl.vWerase, {ctl.vEof, linefeed, ctl.vErase, ctl.vKill})
    /\ prev = FooSp \o <<195, 169, space>> /\ result = FooSp
    /\ echo = EchoNormal /\ wrote = BackSeq(2)

(***************************************************************************)
(* C19 as stated. Under EchoNormal and EchoMask the column the display is  *)
(* at, counted from the start of the input (one column per character or    *)
(* '*' written, less the columns of every cursor-back), equals the number  *)
(* of characters in the buffer after every unit processed.                 *)
(***************************************************************************)
\* the number a run of ASCII digits writes
RECURSIVE Atoi(_)
Atoi(ds) ==
    IF Len(ds) = 0 THEN 0 ELSE Atoi(Front(ds)) * 10 + (Last(ds) - 48)

\* the column after the writes w: a write of <<ESC, '['>> opens the three
\* writes of a cursor-back, any other write shows its characters
RECURSIVE Column(_)
Column(w) ==
    IF Len(w) = 0 THEN 0
    ELSE IF Head(w) = <<ESC, 91>> THEN Column(Drop(w, 3)) - Atoi(w[2])
    ELSE Column(Tail(w)) + RuneCount(Head(w))

C19_ColumnTracksBuffer ==
    (entered /\ echo # EchoNone) => Column(out) = RuneCount(result)

(***************************************************************************)
(* C15. When MakeRaw succeeds the device holds the captured configuration  *)
(* with IGNBRK, BRKINT, PARMRK, ISTRIP, INLCR, IGNCR, ICRNL, IXON cleared  *)
(* in Iflag, OPOST cleared in Oflag, ECHO, ECHONL, ICANON, ISIG, IEXTEN    *)
(* cleared in Lflag, CSIZE and PARENB cleared and CS8 set in Cflag; every  *)
(* other bit and the whole of Cc are as captured.                          *)
(***************************************************************************)
FlagBits == 0 .. 31

C15_RawFrame ==
    (mk.pc = "raw" /\ mk.meddles = 0 /\ mk.calls = 0) =>
        /\ \A b \in FlagBits :
              /\ b \in dev.Iflag <=>
                    (b \in mk.base.Iflag /\ b \notin {0, 1, 3, 5, 6, 7, 8, 10})
              /\ b \in dev.Oflag <=> (b \in mk.base.Oflag /\ b # 0)
              /\ b \in dev.Lflag <=>
                    (b \in mk.base.Lflag /\ b \notin {0, 1, 3, 6, 15})
              /\ b \in dev.Cflag <=>
                    (b \in {4, 5} \/ (b \in mk.base.Cflag /\ b # 8))
        /\ dev.Iflag \cup dev.Oflag \cup dev.Lflag \cup dev.Cflag
              \subseteq FlagBits
        /\ dev.Cc = mk.base.Cc

\* the 7-bit parity line made raw: 8 bits, no parity, the receiver still
\* enabled, parity errors still ignored, the control characters untouched
C15_Witness ==
    /\ mk.pc = "raw" /\ mk.meddles = 0 /\ mk.calls = 0
    /\ mk.base = SerialTermios
    /\ dev.Cflag = {4, 5, 7} /\ dev.Iflag = {2, 11} /\ dev.Lflag = {4}
    /\ dev.Oflag = {2} /\ dev.Cc = DefaultCc

(***************************************************************************)
(* C16. The function a successful MakeRaw returns re-applies the           *)
(* configuration captured before the changes, whatever was done to the     *)
(* device since; a failed MakeRaw returns an error and no function and     *)
(* leaves the device as it was.                                            *)
(***************************************************************************)
C16_RestoreVerbatim ==
    /\ (mk.pc = "restored" /\ mk.rerr = "nil") => dev = mk.base
    /\ mk.pc \in {"raw", "restored"} =>
          mk.restore /\ mk.err = "nil" /\ mk.old = mk.base
    /\ mk.pc = "failed" => ~mk.restore /\ mk.err # "nil" /\ dev = mk.base

\* restore called after two changes by others: the device is back to what
\* it was before MakeRaw, which is not raw
C16_Witness ==
    /\ mk.pc = "restored" /\ mk.rerr = "nil" /\ mk.meddles = 2
    /\ dev = mk.base /\ MakeRawTermios(mk.base) # mk.base

(***************************************************************************)
(* C17 as stated. Called with a pointer, Input returns only (1) the error  *)
(* GetBytes returned, with *in not assigned, (2) nil with the default in   *)
(* *in after an empty line, (3) nil with the converted value in *in after  *)
(* a non-empty line; it ends in no other way, and it is back at the        *)
(* prompt only after an empty line without default or a line that did not  *)
(* convert.                                                                *)
(***************************************************************************)
C17_InputOutcomes ==
    inp.isPtr =>
        /\ inp.pc # "panicked"
        /\ inp.pc = "returned" =>
              \/ err # "nil" /\ inp.ret = err /\ inp.val = Unassigned
              \/ /\ err = "nil" /\ result = <<>> /\ inp.hasDefault
                 /\ inp.val = DefaultValue /\ inp.ret = "nil"
              \/ /\ err = "nil" /\ result # <<>> /\ Convert(result).ok
                 /\ inp.val = Converted(Convert(result).v) /\ inp.ret = "nil"
        /\ (inp.pc = "loop" /\ inp.prompts > 0) =>
              /\ err = "nil"
              /\ \/ result = <<>> /\ ~inp.hasDefault
                 \/ result # <<>> /\ ~Convert(result).ok

(***************************************************************************)
(* C21 as stated. Once GetBytes has read the configuration, the four       *)
(* control bytes it classifies against are those of the table captured at  *)
(* entry (old), on every platform's slot layout; and a delivered unit      *)
(* whose first byte is the captured end-of-input byte ends the loop, one   *)
(* whose first byte is the newline and not end-of-input ends it too, the   *)
(* earlier case of the switch deciding.                                    *)
(***************************************************************************)
C21_CapturedControlBytes ==
    entered =>
        /\ ctl = ControlBytes(old)
        /\ (LatestDelivered /\ Last(fed)[1] = old.Cc[VEOF]) =>
              pc \in {"deferred", "returned"}
        /\ (LatestDelivered /\ Last(fed)[1] = linefeed) =>
              pc \in {"deferred", "returned"}

C23_LayoutCoversOptions ==
    /\ menu.pc # "panicked"
    /\ menu.pc \in {"print", "input"} =>
          /\ menu.rowCnt >= 1
          /\ menu.colCnt >= 1
          /\ menu.rowCnt * menu.colCnt >= menu.optCnt
          /\ menu.columns = 0 =>
                menu.rowCnt <= menu.height -
                    (IF menu.withTitle THEN TitleLines ELSE PlainLines)
          /\ \A j, k \in 1 .. Len(menu.printed) :
                menu.printed[j] = menu.printed[k] => j = k
    /\ menu.pc = "input" =>
          {menu.printed[j] : j \in 1 .. Len(menu.printed)} =
              0 .. menu.optCnt - 1

====
